---- MODULE Spec2Model ----
(***************************************************************************)
(* Survey flight-path planning engine of the drone project scoping tool.   *)
(*                                                                         *)
(* Source: src/unnamed/part_001 (src/App.tsx: buildGridInsidePolygon,      *)
(* connectLegs, segmentByCap and the App component's memoized pipeline)    *)
(* and src/src/lib/qgc.ts (spacingFromOverlap, makePlan).                  *)
(*                                                                         *)
(* Conventions of the model                                                *)
(*  - A point is a pair of integers in a local planar frame whose unit is  *)
(*    one metre.  LatLon = <<lat, lon>> (north, east) as in App.tsx,       *)
(*    LonLat = <<lon, lat>> as handed to the geometry library; the swaps   *)
(*    the code performs are modelled by SwapLL.                            *)
(*  - Lengths are integers (metres); the length of a slanted hop is the    *)
(*    integer square root of its squared length.  IEEE rounding of the     *)
(*    source's doubles is not modelled.                                    *)
(*  - A duration is a rational [num, den] (seconds = num / den), so that   *)
(*    d / speed is exact.                                                  *)
(***************************************************************************)
EXTENDS Integers, Sequences, FiniteSets, TLC

VARIABLES
    \* ---- segmentByCap call (SpecSeg) ----
    seg_legs, seg_speed, seg_turn, seg_cap, seg_out, seg_pc,
    \* ---- connectLegs call (SpecConnect) ----
    cl_legs, cl_out, cl_pc,
    \* ---- buildGridInsidePolygon call (SpecGrid) ----
    grid_ring, grid_heading, grid_spacing,
    grid_throws,    \* environment: the library's lineSplit throws on this ring
    grid_pipThrows, \* environment: its booleanPointInPolygon throws on it
    grid_out, grid_pc,
    \* ---- mission writer, qgc.ts (SpecPlan) ----
    idCounter,      \* module-level let idCounter
    plan_opts,      \* the options of the latest makePlan call
    plan,           \* the plan the latest makePlan call returned
    plan_idBefore,  \* history: idCounter as the latest call found it
    \* ---- spacingFromOverlap call and the photo count of a main path
    \*      distance over its along-track spacing (SpecMetrics) ----
    sp_height, sp_cam, sp_overlap, sp_sidelap, sp_out, ph_main, ph_out, met_pc,
    \* ---- App component state, App.tsx (Spec) ----
    heading, heightAGL, overlap, sidelap, groundspeed, turnTime, batteryCap,
    crosshatch, autoSegment, cameraKey, aoi, home,
    aoiSplitThrows, \* environment: the library's lineSplit throws on this AOI
    drawRingLen,    \* history: entries in the ring of the polygon the latest
                    \* draw event read, -1 when it read no polygon
    appStatus,      \* "ok", or how a render failed to complete
    \* ---- App component memoized values (useMemo) ----
    along_m, across_m, legsPrimary, legsCross, allLegs, rawPathLatLon,
    orientedPathLonLat, entryCoords, returnCoords, mainPathDistance_m,
    entryReturnDistance_m, estTime_min, photoCount, segments

segVars == <<seg_legs, seg_speed, seg_turn, seg_cap, seg_out, seg_pc>>
clVars  == <<cl_legs, cl_out, cl_pc>>
gridVars == <<grid_ring, grid_heading, grid_spacing, grid_throws,
              grid_pipThrows, grid_out, grid_pc>>
planVars == <<idCounter, plan_opts, plan, plan_idBefore>>
metVars == <<sp_height, sp_cam, sp_overlap, sp_sidelap, sp_out, ph_main, ph_out,
             met_pc>>
inputVars == <<heading, heightAGL, overlap, sidelap, groundspeed, turnTime,
               batteryCap, crosshatch, autoSegment, cameraKey, aoi, home,
               aoiSplitThrows>>
gridMemoVars == <<legsPrimary, legsCross, allLegs, rawPathLatLon>>
pathMemoVars == <<orientedPathLonLat, entryCoords, returnCoords,
                  mainPathDistance_m, entryReturnDistance_m, estTime_min,
                  photoCount, segments>>
memoVars == <<along_m, across_m, gridMemoVars, pathMemoVars>>
appVars == <<inputVars, drawRingLen, appStatus, memoVars>>
vars    == <<segVars, clVars, gridVars, planVars, metVars, appVars>>

----------------------------------------------------------------------------
(* Generic helpers *)

Max(a, b) == IF a >= b THEN a ELSE b
Abs(a) == IF a >= 0 THEN a ELSE -a

Last(s) == s[Len(s)]

RECURSIVE Flatten(_)
Flatten(ss) == IF ss = <<>> THEN <<>> ELSE Head(ss) \o Flatten(Tail(ss))

Reverse(s) == [k \in 1..Len(s) |-> s[Len(s) + 1 - k]]

\* Sequences over S of length lo..hi
SeqsOf(S, lo, hi) == UNION {[1..n -> S] : n \in lo..hi}

\* floor(sqrt(n)), n >= 0, searched below the bound ub >= sqrt(n)
RECURSIVE ISqrtBetween(_, _, _)
ISqrtBetween(n, lo, hi) ==
    IF lo >= hi THEN lo
    ELSE LET mid == (lo + hi + 1) \div 2
         IN  IF mid * mid <= n THEN ISqrtBetween(n, mid, hi)
             ELSE ISqrtBetween(n, lo, mid - 1)

ISqrt(n, ub) == ISqrtBetween(n, 0, ub)

SwapLL(p) == <<p[2], p[1]>>

----------------------------------------------------------------------------
(* Geometry library (@turf/turf) on the planar frame *)

\* turf distance(a, b) in metres
turfDistance(a, b) ==
    LET dx == Abs(a[1] - b[1])
        dy == Abs(a[2] - b[2])
    IN  IF dx = 0 THEN dy
        ELSE IF dy = 0 THEN dx
        ELSE ISqrt(dx * dx + dy * dy, dx + dy)

\* turf length(lineString(ll)) in metres: the sum of the hops
RECURSIVE turfLength(_)
turfLength(ll) ==
    IF Len(ll) < 2 THEN 0
    ELSE turfDistance(ll[1], ll[2]) + turfLength(Tail(ll))

----------------------------------------------------------------------------
(* connectLegs: stitch legs into one continuous path *)

\* a connector test that demands both coordinates to differ
needsConnector_And(last, start) == last[1] # start[1] /\ last[2] # start[2]

\* last[0] !== start[0] || last[1] !== start[1]
needsConnector(last, start) == last[1] # start[1] \/ last[2] # start[2]

RECURSIVE connectLegsFrom(_, _, _)
connectLegsFrom(legs, i, out) ==
    IF i > Len(legs) THEN out
    ELSE LET leg == legs[i] IN
         IF Len(leg) < 2 THEN connectLegsFrom(legs, i + 1, out)
         ELSE IF Len(out) = 0 THEN connectLegsFrom(legs, i + 1, out \o leg)
         ELSE LET last  == out[Len(out)]
                  start == leg[1]
                  withConn == IF needsConnector(last, start)
                              THEN Append(out, start) ELSE out   \* connector
              IN  connectLegsFrom(legs, i + 1, withConn \o Tail(leg))

connectLegs(legs) == connectLegsFrom(legs, 1, <<>>)

----------------------------------------------------------------------------
(* segmentByCap: greedy split of the leg list by battery cap *)

\* a budget that keeps two minutes of reserve
budget_s_TwoMinutes(cap_min) == Max(60, cap_min * 60 - 120)

\* a budget that forgets the one minute reserve
budget_s_NoReserve(cap_min) == Max(60, cap_min * 60)

\* Math.max(60, cap_min * 60 - 60)
budget_s(cap_min) == Max(60, cap_min * 60 - 60)

\* denominator of the durations of one call: d / speed_mps is num d over den speed
timeDen(speed_mps) == IF speed_mps > 0 THEN speed_mps ELSE 1

\* legTimeAndDist: t is the numerator of the leg's flight time over timeDen
legTimeAndDist(leg, speed_mps) ==
    IF Len(leg) < 2 THEN [t |-> 0, d |-> 0]
    ELSE LET ll == [k \in 1..Len(leg) |-> SwapLL(leg[k])]
             d  == turfLength(ll)
         IN  [t |-> IF speed_mps > 0 THEN d ELSE 0, d |-> d]

\* distAccum: the legs' own lengths added up, connectors between legs left out
RECURSIVE distAccumOf(_)
distAccumOf(current) ==
    IF current = <<>> THEN 0
    ELSE turfLength([k \in 1..Len(Head(current)) |-> SwapLL(Head(current)[k])])
         + distAccumOf(Tail(current))

\* a Segment record that reports distAccum as its distance
makeSegment_DistAccum(current, timeAccum, den) ==
    [legs       |-> current,
     pathLatLon |-> connectLegs(current),
     distance_m |-> distAccumOf(current),
     time_s     |-> [num |-> timeAccum, den |-> den]]

\* the Segment record pushed for the legs in current
makeSegment(current, timeAccum, den) ==
    LET pathLatLon == connectLegs(current)
        ll == [k \in 1..Len(pathLatLon) |-> SwapLL(pathLatLon[k])]
    IN  [legs       |-> current,
         pathLatLon |-> pathLatLon,
         distance_m |-> turfLength(ll),
         time_s     |-> [num |-> timeAccum, den |-> den]]

\* an epilogue that forgets the segment still open after the last leg
segFlush_Drop(segs, current, timeAccum, den) == segs

\* if (current.length) segs.push({...}) after the loop
segFlush(segs, current, timeAccum, den) ==
    IF Len(current) > 0 THEN Append(segs, makeSegment(current, timeAccum, den))
    ELSE segs

RECURSIVE segLoop(_, _, _, _, _, _, _, _)
segLoop(legs, idx, speed_mps, turnTime_s, budget, segs, current, timeAccum) ==
    LET den == timeDen(speed_mps) IN
    IF idx > Len(legs) THEN segFlush(segs, current, timeAccum, den)
    ELSE LET leg       == legs[idx]
             td        == legTimeAndDist(leg, speed_mps)
             extraTurn == turnTime_s * den
             close     == Len(current) > 0
                          /\ timeAccum + td.t + extraTurn > budget * den
             segs1     == IF close
                          THEN Append(segs, makeSegment(current, timeAccum, den))
                          ELSE segs
             current1  == IF close THEN <<>> ELSE current
             time1     == IF close THEN 0 ELSE timeAccum
         IN  segLoop(legs, idx + 1, speed_mps, turnTime_s, budget, segs1,
                     Append(current1, leg), time1 + td.t + extraTurn)

segmentByCap(legs, speed_mps, turnTime_s, cap_min) ==
    segLoop(legs, 1, speed_mps, turnTime_s, budget_s(cap_min), <<>>, <<>>, 0)

----------------------------------------------------------------------------
(* Geometry library, continued: the operations the grid builder calls.     *)
(* Positions are LonLat = <<x, y>>; bearings are multiples of 45 degrees.  *)
(* Polygon edges are axis-parallel or diagonal, and a diagonal bearing is  *)
(* used only over a polygon of axis-parallel edges, so every intersection  *)
(* of a scan line with an edge is a lattice point.                         *)

\* n / d for d # 0 dividing n
DivExact(n, d) == IF d < 0 THEN (-n) \div (-d) ELSE n \div d

\* Math.ceil(a / b), b # 0
CeilDiv(a, b) ==
    LET n == IF b < 0 THEN -a ELSE a
        d == Abs(b)
    IN  -((-n) \div d)

MinOf(S) == CHOOSE x \in S : \A y \in S : x <= y
MaxOf(S) == CHOOSE x \in S : \A y \in S : x >= y

RECURSIVE SortAsc(_)
SortAsc(S) == IF S = {} THEN <<>> ELSE <<MinOf(S)>> \o SortAsc(S \ {MinOf(S)})

\* turf bbox(poly): [minX, minY, maxX, maxY] of the outer ring
bbox(ring) ==
    LET xs == {ring[k][1] : k \in 1..Len(ring)}
        ys == {ring[k][2] : k \in 1..Len(ring)}
    IN  <<MinOf(xs), MinOf(ys), MaxOf(xs), MaxOf(ys)>>

\* lattice step <<dx, dy>> of a bearing: one metre for the axis bearings,
\* sqrt(2) metres for the diagonal ones
bearingVec(bearing) ==
    CASE bearing % 360 = 0   -> <<0, 1>>
      [] bearing % 360 = 45  -> <<1, 1>>
      [] bearing % 360 = 90  -> <<1, 0>>
      [] bearing % 360 = 135 -> <<1, -1>>
      [] bearing % 360 = 180 -> <<0, -1>>
      [] bearing % 360 = 225 -> <<-1, -1>>
      [] bearing % 360 = 270 -> <<-1, 0>>
      [] bearing % 360 = 315 -> <<-1, 1>>

\* the lattice steps that dist_m metres along a bearing come to:
\* dist_m on an axis bearing, dist_m / sqrt(2) (whole steps) on a diagonal
bearingSteps(dist_m, bearing) ==
    IF bearing % 90 = 0 THEN dist_m
    ELSE IF dist_m >= 0 THEN ISqrt((dist_m * dist_m) \div 2, dist_m)
    ELSE -ISqrt((dist_m * dist_m) \div 2, -dist_m)

\* turf destination(origin, dist, bearing), dist in metres
destination(origin, dist_m, bearing) ==
    <<origin[1] + bearingSteps(dist_m, bearing) * bearingVec(bearing)[1],
      origin[2] + bearingSteps(dist_m, bearing) * bearingVec(bearing)[2]>>

\* turf transformTranslate(line, dist, direction): every position moved;
\* a negative distance moves the other way
transformTranslate(line, dist_m, direction) ==
    [k \in 1..Len(line) |-> destination(line[k], dist_m, direction)]

Sign(n) == IF n > 0 THEN 1 ELSE IF n < 0 THEN -1 ELSE 0

Cross(u, v) == u[1] * v[2] - u[2] * v[1]

\* turf lineSplit(line, polygon).features for a two-point line along a
\* lattice direction: the line cut at every point where it crosses a boundary
\* edge that is not parallel to it, pieces in line order and line direction;
\* no crossing gives no feature.  The point a + t * d of the line lies on the
\* edge e1 + u * (e2 - e1), 0 <= u <= 1.
lineSplit(line, ring) ==
    LET a == line[1]
        b == line[2]
        d == <<Sign(b[1] - a[1]), Sign(b[2] - a[2])>>
        T == Max(Abs(b[1] - a[1]), Abs(b[2] - a[2]))
        edge(k) == <<ring[k + 1][1] - ring[k][1], ring[k + 1][2] - ring[k][2]>>
        from(k) == <<ring[k][1] - a[1], ring[k][2] - a[2]>>
        den(k)  == Cross(d, edge(k))
        unum(k) == Cross(from(k), d)
        crosses(k) ==
            /\ den(k) # 0
            /\ IF den(k) > 0 THEN 0 <= unum(k) /\ unum(k) <= den(k)
               ELSE den(k) <= unum(k) /\ unum(k) <= 0
        hit(k) == DivExact(Cross(from(k), edge(k)), den(k))
        cuts == {t \in {hit(k) : k \in {j \in 1..(Len(ring) - 1) : crosses(j)}} :
                    0 < t /\ t < T}
        ord  == SortAsc(cuts)
        at(t) == <<a[1] + t * d[1], a[2] + t * d[2]>>
        pts  == <<a>> \o [k \in 1..Len(ord) |-> at(ord[k])] \o <<b>>
    IN  IF cuts = {} THEN <<>>
        ELSE [k \in 1..(Len(pts) - 1) |-> <<pts[k], pts[k + 1]>>]

\* turf midpoint(a, b), doubled so that it stays a lattice point
midpoint2(a, b) == <<a[1] + b[1], a[2] + b[2]>>

\* turf booleanPointInPolygon(pt, polygon) for the point q2 / 2: even-odd ray
\* casting over the outer ring, a point on the boundary counting as inside
booleanPointInPolygon2(q2, ring) ==
    LET P(k) == <<2 * ring[k][1], 2 * ring[k][2]>>
        E == 1..(Len(ring) - 1)
        onEdge(k) ==
            LET e1 == P(k)
                e2 == P(k + 1)
            IN  /\ (q2[1] - e1[1]) * (e2[2] - e1[2]) = (q2[2] - e1[2]) * (e2[1] - e1[1])
                /\ (e1[1] - q2[1]) * (e2[1] - q2[1]) <= 0
                /\ (e1[2] - q2[2]) * (e2[2] - q2[2]) <= 0
        rayHits(k) ==
            LET e1 == P(k)
                e2 == P(k + 1)
                dy == e2[2] - e1[2]
                lhs == (q2[1] - e1[1]) * dy
                rhs == (e2[1] - e1[1]) * (q2[2] - e1[2])
            IN  /\ (e1[2] > q2[2]) # (e2[2] > q2[2])
                /\ IF dy > 0 THEN lhs < rhs ELSE lhs > rhs
    IN  \/ \E k \in E : onEdge(k)
        \/ Cardinality({k \in E : rayHits(k)}) % 2 = 1

----------------------------------------------------------------------------
(* buildGridInsidePolygon: lawnmower legs inside the polygon *)

\* a filter that keeps every clipped piece
keepPiece_All(coords, ring) == TRUE

\* booleanPointInPolygon(midpoint(coords[0], coords[coords.length - 1]), polyFeat)
keepPiece(coords, ring) ==
    booleanPointInPolygon2(midpoint2(coords[1], coords[Len(coords)]), ring)

\* a zig-zag that reverses the even passes
zigzag_Odd(path, nLegs) == IF nLegs % 2 = 1 THEN path ELSE Reverse(path)

\* legs.length % 2 === 0 ? path : [...path].reverse()
zigzag(path, nLegs) == IF nLegs % 2 = 0 THEN path ELSE Reverse(path)

\* for (const seg of pieces) ...
RECURSIVE gridPieces(_, _, _, _)
gridPieces(pieces, k, ring, legs) ==
    IF k > Len(pieces) THEN legs
    ELSE LET coords == pieces[k] IN
         IF Len(coords) < 2 THEN gridPieces(pieces, k + 1, ring, legs)
         ELSE IF keepPiece(coords, ring)
              THEN LET path == [j \in 1..Len(coords) |-> SwapLL(coords[j])]
                   IN  gridPieces(pieces, k + 1, ring,
                                  Append(legs, zigzag(path, Len(legs))))
              ELSE gridPieces(pieces, k + 1, ring, legs)

\* the pieces of one scan line: lineSplit's features, or the whole line when
\* there are none or when lineSplit throws
scanPieces(shifted, ring, splitThrows) ==
    IF splitThrows THEN <<shifted>>
    ELSE LET split == lineSplit(shifted, ring)
         IN  IF Len(split) > 0 THEN split ELSE <<shifted>>

\* for (let i = -halfSteps; i <= halfSteps; i++) ...
\* legs is the array built so far, taken as a value at each pass
RECURSIVE gridLoop(_, _, _, _, _, _, _, _)
gridLoop(i, halfSteps, baseLine, spacing_m, ortho, ring, splitThrows, legs) ==
    IF i > halfSteps \/ Len(legs) < 0 THEN legs
    ELSE LET shifted == transformTranslate(baseLine, i * spacing_m, ortho)
             pieces  == scanPieces(shifted, ring, splitThrows)
         IN  gridLoop(i + 1, halfSteps, baseLine, spacing_m, ortho, ring,
                      splitThrows, gridPieces(pieces, 1, ring, legs))

\* the scan frame set up before the loop: the extent to cover, the bearing
\* the scan lines are shifted along, and the base line through the bbox centre
gridFrame(ring, headingDeg, spacing_m) ==
    LET bb == bbox(ring)
        minX == bb[1]
        minY == bb[2]
        maxX == bb[3]
        maxY == bb[4]
        centerLon == (minX + maxX) \div 2
        centerLat == (minY + maxY) \div 2
        diag_m == turfDistance(<<minX, minY>>, <<maxX, maxY>>)
        lineLen_m == Max(500, diag_m * 2)
        width_m == turfDistance(<<minX, centerLat>>, <<maxX, centerLat>>)
        height_m == turfDistance(<<centerLon, minY>>, <<centerLon, maxY>>)
        pCenter == <<centerLon, centerLat>>
        p1 == destination(pCenter, lineLen_m \div 2, headingDeg)
        p2 == destination(pCenter, lineLen_m \div 2, (headingDeg + 180) % 360)
    IN  [cover_m  |-> Max(width_m, height_m) + spacing_m * 4,
         ortho    |-> (headingDeg + 90) % 360,
         baseLine |-> <<p2, p1>>]

\* Math.ceil(cover_m / (2 * spacing_m)), spacing_m # 0
halfStepsOf(cover_m, spacing_m) == CeilDiv(cover_m, 2 * spacing_m)

\* The call's outcome: status "ok" with the legs returned, or the way the call
\* fails to return.  With spacing_m = 0 over a polygon of positive extent
\* halfSteps is Infinity and i starts at -Infinity: i++ leaves it there, and
\* the translation distance i * spacing_m is NaN, which the library either
\* rejects with an exception (nanOutcome "threw") or lets through, the loop
\* then never ending (nanOutcome "hung").
\* The midpoint and booleanPointInPolygon calls stand outside the try block:
\* when the polygon test throws (pipThrows), the first piece of the first scan
\* line ends the call with that exception.
buildGridInsidePolygon(ring, headingDeg, spacing_m, splitThrows, pipThrows, nanOutcome) ==
    LET fr == gridFrame(ring, headingDeg, spacing_m)
    IN  IF spacing_m = 0
        THEN IF fr.cover_m = 0
             THEN [status |-> "ok", legs |-> <<>>]      \* halfSteps is NaN
             ELSE [status |-> nanOutcome, legs |-> <<>>]
        ELSE LET halfSteps == halfStepsOf(fr.cover_m, spacing_m)
             IN  IF pipThrows /\ -halfSteps <= halfSteps
                 THEN [status |-> "threw", legs |-> <<>>]
                 ELSE [status |-> "ok",
                       legs |-> gridLoop(-halfSteps, halfSteps, fr.baseLine,
                                         spacing_m, fr.ortho, ring, splitThrows,
                                         <<>>)]

----------------------------------------------------------------------------
(* Spacing calculator (qgc.ts).  Camera lengths are in tenths of a          *)
(* millimetre, overlap and sidelap in percent (the sliders store            *)
(* percent / 100); a spacing is the rational [num, den], den > 0.           *)

Cameras ==
    [Mavic3T_Wide |-> [sensorWidth_mm |-> 63, sensorHeight_mm |-> 47,
                       focalLength_mm |-> 45],
     Phantom4Pro  |-> [sensorWidth_mm |-> 132, sensorHeight_mm |-> 88,
                       focalLength_mm |-> 88],
     Mavic3T_Tele |-> [sensorWidth_mm |-> 45, sensorHeight_mm |-> 34,
                       focalLength_mm |-> 1620]]

footprintMeters(heightAGL_m, cam) ==
    [groundWidth_m  |-> [num |-> heightAGL_m * cam.sensorWidth_mm,
                         den |-> cam.focalLength_mm],
     groundHeight_m |-> [num |-> heightAGL_m * cam.sensorHeight_mm,
                         den |-> cam.focalLength_mm]]

\* the overlap taken across the track and the sidelap along it
spacingFromOverlap_Swapped(heightAGL_m, cam, overlapPct, sidelapPct) ==
    LET fp == footprintMeters(heightAGL_m, cam) IN
    [along_m  |-> [num |-> fp.groundHeight_m.num * (100 - sidelapPct),
                   den |-> fp.groundHeight_m.den * 100],
     across_m |-> [num |-> fp.groundWidth_m.num * (100 - overlapPct),
                   den |-> fp.groundWidth_m.den * 100],
     footprint |-> fp]

spacingFromOverlap(heightAGL_m, cam, overlapPct, sidelapPct) ==
    LET fp == footprintMeters(heightAGL_m, cam) IN
    [along_m  |-> [num |-> fp.groundHeight_m.num * (100 - overlapPct),
                   den |-> fp.groundHeight_m.den * 100],
     across_m |-> [num |-> fp.groundWidth_m.num * (100 - sidelapPct),
                   den |-> fp.groundWidth_m.den * 100],
     footprint |-> fp]

\* the whole metres of a spacing (the input sets keep across_m integral)
Metres(q) == DivExact(q.num, q.den)

----------------------------------------------------------------------------
(* Mission writer (qgc.ts) *)

\* an optional number: <<>> when the caller leaves it out, <<n>> when supplied
Undefined == <<>>

MAV_CMD   == [NAV_WAYPOINT |-> 16, DO_SET_CAM_TRIGG_DIST |-> 206]
MAV_FRAME == [GLOBAL |-> 0, GLOBAL_RELATIVE_ALT |-> 3]

\* idCounter++ : the value returned and the counter left behind
nextId(idc) == [id |-> idc, idCounter |-> idc + 1]

wp(lat, lon, relAlt_m, idc) ==
    [item |-> [AMslAlt      |-> FALSE,
               autoContinue |-> TRUE,
               command      |-> MAV_CMD.NAV_WAYPOINT,
               doJumpId     |-> nextId(idc).id,
               frame        |-> MAV_FRAME.GLOBAL_RELATIVE_ALT,
               params       |-> <<0, 0, 0, 0, lat, lon, relAlt_m>>,
               type         |-> "SimpleItem"],
     idCounter |-> nextId(idc).idCounter]

camTrigDist(trigger_m, idc) ==
    [item |-> [autoContinue |-> TRUE,
               command      |-> MAV_CMD.DO_SET_CAM_TRIGG_DIST,
               doJumpId     |-> nextId(idc).id,
               frame        |-> MAV_FRAME.GLOBAL,
               params       |-> <<trigger_m, 0, 0, 0, 0, 0, 0>>,
               type         |-> "SimpleItem"],
     idCounter |-> nextId(idc).idCounter]

\* for (const [lat, lon] of line) items.push(wp(lat, lon, opts.relAlt_m))
RECURSIVE planLineFrom(_, _, _, _, _)
planLineFrom(line, k, relAlt_m, items, idc) ==
    IF k > Len(line) THEN [items |-> items, idCounter |-> idc]
    ELSE LET w == wp(line[k][1], line[k][2], relAlt_m, idc)
         IN  planLineFrom(line, k + 1, relAlt_m, Append(items, w.item), w.idCounter)

\* a line loop that skips a point equal to the waypoint before it
RECURSIVE planLine_Dedup(_, _, _, _)
planLine_Dedup(line, relAlt_m, items, idc) ==
    IF line = <<>> THEN [items |-> items, idCounter |-> idc]
    ELSE LET w    == wp(line[1][1], line[1][2], relAlt_m, idc)
             same == /\ Len(items) > 1
                     /\ Last(items).params[5] = line[1][1]
                     /\ Last(items).params[6] = line[1][2]
         IN  IF same THEN planLine_Dedup(Tail(line), relAlt_m, items, idc)
             ELSE planLine_Dedup(Tail(line), relAlt_m, Append(items, w.item),
                                 w.idCounter)

planLine(line, relAlt_m, items, idc) == planLineFrom(line, 1, relAlt_m, items, idc)

\* for (const line of opts.gridLines) ...
RECURSIVE planLines(_, _, _, _, _)
planLines(gridLines, j, relAlt_m, items, idc) ==
    IF j > Len(gridLines) THEN [items |-> items, idCounter |-> idc]
    ELSE LET r == planLine(gridLines[j], relAlt_m, items, idc)
         IN  planLines(gridLines, j + 1, relAlt_m, r.items, r.idCounter)

\* a makePlan that keeps counting where the call before it stopped
planStartId_Keep(idc) == idc

\* idCounter = 1 at the top of makePlan
planStartId(idc) == 1

\* x || dflt, which replaces a supplied 0 as well
Coalesce_Or(x, dflt) == IF x = Undefined \/ x[1] = 0 THEN dflt ELSE x[1]

\* x ?? dflt
Coalesce(x, dflt) == IF x = Undefined THEN dflt ELSE x[1]

\* makePlan: the plan returned and the counter it leaves behind
makePlan(opts, idc) ==
    LET id0   == planStartId(idc)
        trig  == camTrigDist(opts.trigger_m, id0)
        r     == planLines(opts.gridLines, 1, opts.relAlt_m, <<trig.item>>,
                           trig.idCounter)
    IN  [plan |->
            [fileType      |-> "Plan",
             version       |-> 1,
             groundStation |-> "QGroundControl",
             geoFence      |-> [version |-> 2, polygons |-> <<>>, circles |-> <<>>],
             rallyPoints   |-> [version |-> 2, points |-> <<>>],
             mission       |->
                [version             |-> 2,
                 cruiseSpeed         |-> opts.groundspeed_mps,
                 hoverSpeed          |-> opts.hover_mps,
                 items               |-> r.items,
                 plannedHomePosition |-> <<opts.homeLat, opts.homeLon, 0>>,
                 firmwareType        |-> Coalesce(opts.firmwareType, 12),
                 vehicleType         |-> Coalesce(opts.vehicleType, 3)]],
         idCounter |-> r.idCounter]

----------------------------------------------------------------------------
(* App component (App.tsx): the memoized planning pipeline *)

\* aoi is Null or <<polygon>>, polygon = [coordinates |-> <<outer ring>>]
Null == <<>>

okLegs(legs) == [status |-> "ok", legs |-> legs]

\* legsPrimary: if (!aoi || !aoi.coordinates?.[0] || ring.length < 4) return []
legsPrimaryOf(a, headingDeg, spacing_m, throws, nanOutcome) ==
    IF a = Null \/ Len(a[1].coordinates) = 0 \/ Len(a[1].coordinates[1]) < 4
    THEN okLegs(<<>>)
    ELSE buildGridInsidePolygon(a[1].coordinates[1], headingDeg, spacing_m,
                                throws, FALSE, nanOutcome)

\* legsCross: if (!crosshatch || !aoi) return []
legsCrossOf(a, ch, headingDeg, spacing_m, throws, nanOutcome) ==
    IF ~ch \/ a = Null THEN okLegs(<<>>)
    ELSE buildGridInsidePolygon(a[1].coordinates[1], (headingDeg + 90) % 360,
                                spacing_m, throws, FALSE, nanOutcome)

\* a combined list that puts the cross grid first
allLegsOf_CrossFirst(ch, primary, cross) ==
    IF ch THEN cross \o primary ELSE primary

\* allLegs: crosshatch ? [...legsPrimary, ...legsCross] : legsPrimary
allLegsOf(ch, primary, cross) == IF ch THEN primary \o cross ELSE primary

\* the square of turfDistance(a, b): the two distances the orientation
\* compares are doubles, ordered as their squares are; whole metres would
\* tie where the doubles do not
distanceSq(a, b) ==
    (a[1] - b[1]) * (a[1] - b[1]) + (a[2] - b[2]) * (a[2] - b[2])

\* an orientation that never reverses the path
orientedPathOf_AsStitched(raw, h) ==
    IF Len(raw) < 2 THEN <<>>
    ELSE [k \in 1..Len(raw) |-> SwapLL(raw[k])]

\* orientedPathLonLat: start at the end of the path nearer to Home
orientedPathOf(raw, h) ==
    IF Len(raw) < 2 THEN <<>>
    ELSE LET pathLL == [k \in 1..Len(raw) |-> SwapLL(raw[k])]
             homeLL == <<h[2], h[1]>>
             dStart == distanceSq(homeLL, pathLL[1])
             dEnd   == distanceSq(homeLL, pathLL[Len(pathLL)])
         IN  IF dStart <= dEnd THEN pathLL ELSE Reverse(pathLL)

entryCoordsOf(oriented, h) ==
    IF Len(oriented) < 2 THEN <<>> ELSE <<<<h[2], h[1]>>, oriented[1]>>

\* a return segment that starts at Home
returnCoordsOf_HomeFirst(oriented, h) ==
    IF Len(oriented) < 2 THEN <<>>
    ELSE <<<<h[2], h[1]>>, oriented[Len(oriented)]>>

returnCoordsOf(oriented, h) ==
    IF Len(oriented) < 2 THEN <<>>
    ELSE <<oriented[Len(oriented)], <<h[2], h[1]>>>>

mainPathDistanceOf(oriented) ==
    IF Len(oriented) < 2 THEN 0 ELSE turfLength(oriented)

entryReturnDistanceOf(entry, return) ==
    (IF Len(entry) = 2 THEN turfLength(entry) ELSE 0)
    + (IF Len(return) = 2 THEN turfLength(return) ELSE 0)

\* a turn counted for every leg
estTimeOf_TurnPerLeg(totalDistance_m, gs, nLegs, turn) ==
    IF gs <= 0 \/ totalDistance_m <= 0 THEN [num |-> 0, den |-> 1]
    ELSE [num |-> totalDistance_m + nLegs * turn * gs,
          den |-> gs * 60]

\* estTime_min, the rational (pure_secs + overhead_secs) / 60
estTimeOf(totalDistance_m, gs, nLegs, turn) ==
    IF gs <= 0 \/ totalDistance_m <= 0 THEN [num |-> 0, den |-> 1]
    ELSE [num |-> totalDistance_m + Max(0, nLegs - 1) * turn * gs,
          den |-> gs * 60]

\* Math.floor in place of Math.ceil
photoCountOf_Floor(main_m, along) ==
    IF along.num <= 0 \/ main_m <= 0 THEN 0
    ELSE (main_m * along.den) \div along.num

\* the quotient taken the other way round
photoCountOf_Inverted(main_m, along) ==
    IF along.num <= 0 \/ main_m <= 0 THEN 0
    ELSE CeilDiv(along.num, main_m * along.den)

\* photoCount: if (along_m <= 0 || mainPathDistance_m <= 0) return 0
photoCountOf(main_m, along) ==
    IF along.num <= 0 \/ main_m <= 0 THEN 0
    ELSE CeilDiv(main_m * along.den, along.num)

segmentsOf(auto, legs, raw, main_m, est, gs, turn, cap) ==
    IF ~auto
    THEN <<[legs       |-> legs,
            pathLatLon |-> raw,
            distance_m |-> main_m,
            time_s     |-> [num |-> est.num * 60, den |-> est.den]]>>
    ELSE segmentByCap(legs, gs, turn, cap)

\* a dependency list that leaves the spacing out
photoCountDeps_NoSpacing == <<mainPathDistance_m>>

\* the photoCount memo's dependency list: [mainPathDistance_m, along_m]
photoCountDeps == <<mainPathDistance_m, along_m>>

\* One render after the state setters ran: every useMemo whose dependencies
\* changed calls its function again, in source order.  A grid builder call
\* that does not return ends the render: the memoized values stay as they
\* were and the component is gone (appStatus).
RenderRest ==
    /\ allLegs' = IF <<legsPrimary', legsCross', crosshatch'>>
                      = <<legsPrimary, legsCross, crosshatch>>
                   THEN allLegs
                   ELSE allLegsOf(crosshatch', legsPrimary', legsCross')
    /\ rawPathLatLon' = IF allLegs' = allLegs THEN rawPathLatLon
                        ELSE connectLegs(allLegs')
    /\ orientedPathLonLat' =
          IF rawPathLatLon' = rawPathLatLon /\ home' = home
          THEN orientedPathLonLat
          ELSE orientedPathOf(rawPathLatLon', home')
    /\ entryCoords' = IF orientedPathLonLat' = orientedPathLonLat /\ home' = home
                      THEN entryCoords
                      ELSE entryCoordsOf(orientedPathLonLat', home')
    /\ returnCoords' = IF orientedPathLonLat' = orientedPathLonLat /\ home' = home
                       THEN returnCoords
                       ELSE returnCoordsOf(orientedPathLonLat', home')
    /\ mainPathDistance_m' = IF orientedPathLonLat' = orientedPathLonLat
                             THEN mainPathDistance_m
                             ELSE mainPathDistanceOf(orientedPathLonLat')
    /\ entryReturnDistance_m' =
          IF entryCoords' = entryCoords /\ returnCoords' = returnCoords
          THEN entryReturnDistance_m
          ELSE entryReturnDistanceOf(entryCoords', returnCoords')
    /\ estTime_min' =
          IF <<mainPathDistance_m' + entryReturnDistance_m', groundspeed',
               Len(allLegs'), turnTime'>>
             = <<mainPathDistance_m + entryReturnDistance_m, groundspeed,
                 Len(allLegs), turnTime>>
          THEN estTime_min
          ELSE estTimeOf(mainPathDistance_m' + entryReturnDistance_m',
                         groundspeed', Len(allLegs'), turnTime')
    /\ photoCount' = IF photoCountDeps' = photoCountDeps
                     THEN photoCount
                     ELSE photoCountOf(mainPathDistance_m', along_m')
    /\ segments' =
          IF <<autoSegment', allLegs', rawPathLatLon', mainPathDistance_m',
               estTime_min', groundspeed', turnTime', batteryCap'>>
             = <<autoSegment, allLegs, rawPathLatLon, mainPathDistance_m,
                 estTime_min, groundspeed, turnTime, batteryCap>>
          THEN segments
          ELSE segmentsOf(autoSegment', allLegs', rawPathLatLon',
                          mainPathDistance_m', estTime_min', groundspeed',
                          turnTime', batteryCap')

\* the two grid memos' outcomes decide whether the render completes
RenderGrids(lp, lc) ==
    IF lp.status # "ok"
    THEN appStatus' = lp.status /\ UNCHANGED <<gridMemoVars, pathMemoVars>>
    ELSE IF lc.status # "ok"
    THEN appStatus' = lc.status /\ UNCHANGED <<gridMemoVars, pathMemoVars>>
    ELSE /\ appStatus' = "ok"
         /\ legsPrimary' = lp.legs
         /\ legsCross' = lc.legs
         /\ RenderRest

Render ==
    /\ along_m' = IF <<heightAGL', cameraKey', overlap', sidelap'>>
                      = <<heightAGL, cameraKey, overlap, sidelap>>
                   THEN along_m
                   ELSE spacingFromOverlap(heightAGL', Cameras[cameraKey'],
                                           overlap', sidelap').along_m
    /\ across_m' = IF <<heightAGL', cameraKey', overlap', sidelap'>>
                       = <<heightAGL, cameraKey, overlap, sidelap>>
                    THEN across_m
                    ELSE spacingFromOverlap(heightAGL', Cameras[cameraKey'],
                                            overlap', sidelap').across_m
    /\ \E nanOutcome \in (IF across_m'.num = 0 /\ aoi' # Null
                          THEN {"threw", "hung"} ELSE {"threw"}) :
         RenderGrids(
             IF <<aoi', aoiSplitThrows', heading', across_m'>>
                = <<aoi, aoiSplitThrows, heading, across_m>>
             THEN okLegs(legsPrimary)
             ELSE legsPrimaryOf(aoi', heading', Metres(across_m'),
                                aoiSplitThrows', nanOutcome),
             IF <<aoi', aoiSplitThrows', crosshatch', heading', across_m'>>
                = <<aoi, aoiSplitThrows, crosshatch, heading, across_m>>
             THEN okLegs(legsCross)
             ELSE legsCrossOf(aoi', crosshatch', heading', Metres(across_m'),
                              aoiSplitThrows', nanOutcome))

\* draw.getAll() read by updateAOIFromDraw: it throws, or returns features
firstPolygon(features) ==
    LET idx == {k \in 1..Len(features) : features[k].geometry.type = "Polygon"}
    IN  IF idx = {} THEN <<>> ELSE <<features[MinOf(idx)]>>

\* the ring length the handler tests: poly?.geometry?.coordinates?.[0].length
readRingLen(read) ==
    IF read.throws \/ firstPolygon(read.features) = <<>> THEN -1
    ELSE IF Len(firstPolygon(read.features)[1].geometry.coordinates) = 0 THEN -1
    ELSE Len(firstPolygon(read.features)[1].geometry.coordinates[1])

\* an AOI update that accepts any ring
updateAOIFromDraw_AnyRing(read) ==
    IF read.throws THEN Null
    ELSE LET poly == firstPolygon(read.features) IN
         IF poly = <<>> THEN Null
         ELSE IF Len(poly[1].geometry.coordinates) = 0 THEN Null
         ELSE <<[coordinates |-> poly[1].geometry.coordinates]>>

\* an AOI update that asks for 3 ring entries
updateAOIFromDraw_MinThree(read) ==
    IF read.throws THEN Null
    ELSE LET poly == firstPolygon(read.features) IN
         IF poly = <<>> THEN Null
         ELSE IF Len(poly[1].geometry.coordinates) = 0 THEN Null
         ELSE IF Len(poly[1].geometry.coordinates[1]) < 3 THEN Null
         ELSE <<[coordinates |-> poly[1].geometry.coordinates]>>

\* updateAOIFromDraw: the AOI the handler sets
updateAOIFromDraw(read) ==
    IF read.throws THEN Null
    ELSE LET poly == firstPolygon(read.features) IN
         IF poly = <<>> THEN Null
         ELSE IF Len(poly[1].geometry.coordinates) = 0 THEN Null
         ELSE IF Len(poly[1].geometry.coordinates[1]) < 4 THEN Null
         ELSE <<[coordinates |-> poly[1].geometry.coordinates]>>

----------------------------------------------------------------------------
(* Bounds and input sets of the function-level specifications *)

MaxLegs == 3

FnPoints == {<<0, 0>>, <<0, 100>>, <<300, 0>>}

\* legs as the grid builder emits them: at least two points, no point repeated
FnLegs2 == {l \in [1..2 -> FnPoints] : l[1] # l[2]}
FnLegs3 == {l \in [1..3 -> FnPoints] : l[1] # l[2] /\ l[2] # l[3] /\ l[1] # l[3]}

FnSpeeds == {0, 5}
FnTurns  == {0, 3, 70}
FnCaps   == {0, 2, 3}

MaxPlanLegs == 2

PlanLegs == {<<<<0, 0>>, <<0, 100>>>>, <<<<0, 100>>, <<0, 0>>>>,
             <<<<0, 100>>, <<300, 0>>, <<0, 0>>>>}

PlanOpts ==
    [homeLat         : {40},
     homeLon         : {-111},
     relAlt_m        : {100},
     groundspeed_mps : {<<8>>},
     hover_mps       : {Undefined},
     trigger_m       : {1, 25},
     gridLines       : SeqsOf(PlanLegs, 0, MaxPlanLegs),
     firmwareType    : {Undefined, <<0>>},
     vehicleType     : {Undefined, <<2>>}]

\* plan and plan_opts hold <<>> before the first call, <<value>> after a call
NoPlan == <<>>

planIdle == /\ idCounter = 1 /\ plan_opts = NoPlan /\ plan = NoPlan
            /\ plan_idBefore = 1

\* ---- App inputs ----
MaxFeatures == 1

Square  == <<<<0, 0>>, <<100, 0>>, <<100, 100>>, <<0, 100>>, <<0, 0>>>>
UShape  == <<<<0, 0>>, <<120, 0>>, <<120, 100>>, <<80, 100>>, <<80, 40>>,
             <<40, 40>>, <<40, 100>>, <<0, 100>>, <<0, 0>>>>
BowTie  == <<<<0, 0>>, <<100, 100>>, <<100, 0>>, <<0, 100>>, <<0, 0>>>>
Sliver  == <<<<0, 0>>, <<0, 100>>, <<0, 0>>>>

\* rings on which the library's line clipping may throw (self-intersecting)
MalformedRings == {BowTie}

DrawFeatures ==
    {[geometry |-> [type |-> "Polygon", coordinates |-> <<r>>]] :
        r \in {Square, Sliver}}
    \cup {[geometry |-> [type |-> "LineString", coordinates |-> Square]]}

DrawReads ==
    {[throws |-> TRUE, features |-> <<>>]}
    \cup {[throws |-> FALSE, features |-> fs] :
            fs \in SeqsOf(DrawFeatures, 0, MaxFeatures)}

Headings     == {0, 270}
Heights      == {100, 0}
OverlapPcts  == {75, 50}
SidelapPcts  == {70, 50}
CameraKeys   == {"Mavic3T_Wide", "Phantom4Pro"}
Groundspeeds == {8, 0}
TurnTimes    == {3, 0}
BatteryCaps  == {25, 1}
HomePoints   == {<<-20, -20>>, <<60, 150>>}

segIdle == /\ seg_legs = <<>> /\ seg_speed = 0 /\ seg_turn = 0 /\ seg_cap = 0
           /\ seg_out = <<>> /\ seg_pc = "idle"
clIdle  == cl_legs = <<>> /\ cl_out = <<>> /\ cl_pc = "idle"
gridIdle == /\ grid_ring = <<>> /\ grid_heading = 0 /\ grid_spacing = 0
            /\ grid_throws = FALSE /\ grid_pipThrows = FALSE
            /\ grid_out = okLegs(<<>>) /\ grid_pc = "idle"
metIdle == /\ sp_height = 0 /\ sp_cam = "Mavic3T_Wide" /\ sp_overlap = 0
           /\ sp_sidelap = 0 /\ sp_out = <<>> /\ ph_main = 0 /\ ph_out = 0
           /\ met_pc = "idle"

----------------------------------------------------------------------------
(* Spec: the App component under any sequence of input changes *)

InitApp ==
    /\ heading = 0 /\ heightAGL = 100 /\ overlap = 75 /\ sidelap = 70
    /\ groundspeed = 8 /\ turnTime = 3 /\ batteryCap = 25
    /\ crosshatch = FALSE /\ autoSegment = FALSE
    /\ cameraKey = "Mavic3T_Wide"
    /\ aoi = Null /\ aoiSplitThrows = FALSE /\ drawRingLen = -1
    /\ home = <<-20, -20>>
    /\ appStatus = "ok"
    /\ along_m = spacingFromOverlap(100, Cameras["Mavic3T_Wide"], 75, 70).along_m
    /\ across_m = spacingFromOverlap(100, Cameras["Mavic3T_Wide"], 75, 70).across_m
    /\ legsPrimary = <<>> /\ legsCross = <<>> /\ allLegs = <<>>
    /\ rawPathLatLon = <<>> /\ orientedPathLonLat = <<>>
    /\ entryCoords = <<>> /\ returnCoords = <<>>
    /\ mainPathDistance_m = 0 /\ entryReturnDistance_m = 0
    /\ estTime_min = [num |-> 0, den |-> 1]
    /\ photoCount = 0
    /\ segments = <<[legs |-> <<>>, pathLatLon |-> <<>>, distance_m |-> 0,
                     time_s |-> [num |-> 0, den |-> 1]]>>

Init == InitApp /\ segIdle /\ clIdle /\ gridIdle /\ planIdle /\ metIdle

otherVars == <<segVars, clVars, gridVars, planVars, metVars>>

SetHeading(v) ==
    /\ appStatus = "ok" /\ heading' = v
    /\ UNCHANGED <<heightAGL, overlap, sidelap, groundspeed, turnTime, batteryCap,
                   crosshatch, autoSegment, cameraKey, aoi, home, aoiSplitThrows>>
    /\ Render /\ UNCHANGED <<drawRingLen, otherVars>>

SetHeightAGL(v) ==
    /\ appStatus = "ok" /\ heightAGL' = v
    /\ UNCHANGED <<heading, overlap, sidelap, groundspeed, turnTime, batteryCap,
                   crosshatch, autoSegment, cameraKey, aoi, home, aoiSplitThrows>>
    /\ Render /\ UNCHANGED <<drawRingLen, otherVars>>

SetOverlap(v) ==
    /\ appStatus = "ok" /\ overlap' = v
    /\ UNCHANGED <<heading, heightAGL, sidelap, groundspeed, turnTime, batteryCap,
                   crosshatch, autoSegment, cameraKey, aoi, home, aoiSplitThrows>>
    /\ Render /\ UNCHANGED <<drawRingLen, otherVars>>

SetSidelap(v) ==
    /\ appStatus = "ok" /\ sidelap' = v
    /\ UNCHANGED <<heading, heightAGL, overlap, groundspeed, turnTime, batteryCap,
                   crosshatch, autoSegment, cameraKey, aoi, home, aoiSplitThrows>>
    /\ Render /\ UNCHANGED <<drawRingLen, otherVars>>

SetGroundspeed(v) ==
    /\ appStatus = "ok" /\ groundspeed' = v
    /\ UNCHANGED <<heading, heightAGL, overlap, sidelap, turnTime, batteryCap,
                   crosshatch, autoSegment, cameraKey, aoi, home, aoiSplitThrows>>
    /\ Render /\ UNCHANGED <<drawRingLen, otherVars>>

SetTurnTime(v) ==
    /\ appStatus = "ok" /\ turnTime' = v
    /\ UNCHANGED <<heading, heightAGL, overlap, sidelap, groundspeed, batteryCap,
                   crosshatch, autoSegment, cameraKey, aoi, home, aoiSplitThrows>>
    /\ Render /\ UNCHANGED <<drawRingLen, otherVars>>

SetBatteryCap(v) ==
    /\ appStatus = "ok" /\ batteryCap' = v
    /\ UNCHANGED <<heading, heightAGL, overlap, sidelap, groundspeed, turnTime,
                   crosshatch, autoSegment, cameraKey, aoi, home, aoiSplitThrows>>
    /\ Render /\ UNCHANGED <<drawRingLen, otherVars>>

SetCrosshatch(v) ==
    /\ appStatus = "ok" /\ crosshatch' = v
    /\ UNCHANGED <<heading, heightAGL, overlap, sidelap, groundspeed, turnTime,
                   batteryCap, autoSegment, cameraKey, aoi, home, aoiSplitThrows>>
    /\ Render /\ UNCHANGED <<drawRingLen, otherVars>>

SetAutoSegment(v) ==
    /\ appStatus = "ok" /\ autoSegment' = v
    /\ UNCHANGED <<heading, heightAGL, overlap, sidelap, groundspeed, turnTime,
                   batteryCap, crosshatch, cameraKey, aoi, home, aoiSplitThrows>>
    /\ Render /\ UNCHANGED <<drawRingLen, otherVars>>

SetCameraKey(v) ==
    /\ appStatus = "ok" /\ cameraKey' = v
    /\ UNCHANGED <<heading, heightAGL, overlap, sidelap, groundspeed, turnTime,
                   batteryCap, crosshatch, autoSegment, aoi, home, aoiSplitThrows>>
    /\ Render /\ UNCHANGED <<drawRingLen, otherVars>>

\* Home marker dragend, or "Set to map center"
SetHome(v) ==
    /\ appStatus = "ok" /\ home' = v
    /\ UNCHANGED <<heading, heightAGL, overlap, sidelap, groundspeed, turnTime,
                   batteryCap, crosshatch, autoSegment, cameraKey, aoi,
                   aoiSplitThrows>>
    /\ Render /\ UNCHANGED <<drawRingLen, otherVars>>

\* draw.create / draw.update: updateAOIFromDraw
DrawChanged(read) ==
    /\ appStatus = "ok"
    /\ aoi' = updateAOIFromDraw(read)
    /\ drawRingLen' = readRingLen(read)
    /\ aoiSplitThrows' \in
          (IF aoi' # Null /\ aoi'[1].coordinates[1] \in MalformedRings
           THEN BOOLEAN ELSE {FALSE})
    /\ UNCHANGED <<heading, heightAGL, overlap, sidelap, groundspeed, turnTime,
                   batteryCap, crosshatch, autoSegment, cameraKey, home>>
    /\ Render /\ UNCHANGED otherVars

\* draw.delete: setAoi(null)
DrawDelete ==
    /\ appStatus = "ok"
    /\ aoi' = Null
    /\ aoiSplitThrows' = FALSE
    /\ drawRingLen' = -1
    /\ UNCHANGED <<heading, heightAGL, overlap, sidelap, groundspeed, turnTime,
                   batteryCap, crosshatch, autoSegment, cameraKey, home>>
    /\ Render /\ UNCHANGED otherVars

Next ==
    \/ \E v \in Headings : SetHeading(v)
    \/ \E v \in Heights : SetHeightAGL(v)
    \/ \E v \in OverlapPcts : SetOverlap(v)
    \/ \E v \in SidelapPcts : SetSidelap(v)
    \/ \E v \in Groundspeeds : SetGroundspeed(v)
    \/ \E v \in TurnTimes : SetTurnTime(v)
    \/ \E v \in BatteryCaps : SetBatteryCap(v)
    \/ \E v \in BOOLEAN : SetCrosshatch(v)
    \/ \E v \in BOOLEAN : SetAutoSegment(v)
    \/ \E v \in CameraKeys : SetCameraKey(v)
    \/ \E v \in HomePoints : SetHome(v)
    \/ \E read \in DrawReads : DrawChanged(read)
    \/ DrawDelete

Spec == Init /\ [][Next]_vars

----------------------------------------------------------------------------
(* SpecSeg: one call of segmentByCap on every bounded input *)

InitSeg ==
    /\ seg_legs \in SeqsOf(FnLegs2, 0, MaxLegs)
    /\ seg_speed \in FnSpeeds
    /\ seg_turn \in FnTurns
    /\ seg_cap \in FnCaps
    /\ seg_out = <<>>
    /\ seg_pc = "call"
    /\ clIdle /\ gridIdle /\ planIdle /\ metIdle /\ InitApp

SegCall ==
    /\ seg_pc = "call"
    /\ seg_out' = segmentByCap(seg_legs, seg_speed, seg_turn, seg_cap)
    /\ seg_pc' = "done"
    /\ UNCHANGED <<seg_legs, seg_speed, seg_turn, seg_cap, clVars, gridVars,
                   planVars, metVars, appVars>>

NextSeg == SegCall

SpecSeg == InitSeg /\ [][NextSeg]_vars

----------------------------------------------------------------------------
(* SpecConnect: one call of connectLegs on every bounded input *)

InitConnect ==
    /\ cl_legs \in SeqsOf(FnLegs2 \cup FnLegs3, 0, MaxLegs)
    /\ cl_out = <<>>
    /\ cl_pc = "call"
    /\ segIdle /\ gridIdle /\ planIdle /\ metIdle /\ InitApp

ConnectCall ==
    /\ cl_pc = "call"
    /\ cl_out' = connectLegs(cl_legs)
    /\ cl_pc' = "done"
    /\ UNCHANGED <<cl_legs, segVars, gridVars, planVars, metVars, appVars>>

NextConnect == ConnectCall

SpecConnect == InitConnect /\ [][NextConnect]_vars

----------------------------------------------------------------------------
(* SpecGrid: one call of buildGridInsidePolygon on every bounded input *)

Triangle == <<<<0, 0>>, <<100, 0>>, <<0, 100>>, <<0, 0>>>>

Diamond  == <<<<50, 0>>, <<100, 50>>, <<50, 100>>, <<0, 50>>, <<50, 0>>>>

\* a 200 m x 200 m square
Field    == <<<<0, 0>>, <<200, 0>>, <<200, 200>>, <<0, 200>>, <<0, 0>>>>

GridRings    == {Square, UShape, BowTie, Triangle, Diamond, Field}
\* the rings of axis-parallel edges, over which a diagonal heading is modelled
AxisRings    == {Square, UShape, Field}
GridHeadings == {0, 45, 90, 180, 270, 315}
\* on a diagonal bearing 10, 20, 42, 50 and 70 m are 7, 14, 29, 35 and 49
\* lattice steps, each within 2.5 % of the distance
GridSpacings == {-42, -20, 0, 10, 20, 42, 50, 70}

InitGrid ==
    /\ grid_ring \in GridRings
    /\ grid_heading \in GridHeadings
    /\ grid_heading % 90 # 0 => grid_ring \in AxisRings
    /\ grid_spacing \in GridSpacings
    /\ grid_throws \in (IF grid_ring \in MalformedRings THEN BOOLEAN ELSE {FALSE})
    /\ grid_pipThrows \in
          (IF grid_ring \in MalformedRings THEN BOOLEAN ELSE {FALSE})
    /\ grid_out = okLegs(<<>>)
    /\ grid_pc = "call"
    /\ segIdle /\ clIdle /\ planIdle /\ metIdle /\ InitApp

GridCall(nanOutcome) ==
    /\ grid_pc = "call"
    /\ grid_out' = buildGridInsidePolygon(grid_ring, grid_heading, grid_spacing,
                                          grid_throws, grid_pipThrows,
                                          nanOutcome)
    /\ grid_pc' = "done"
    /\ UNCHANGED <<grid_ring, grid_heading, grid_spacing, grid_throws,
                   grid_pipThrows, segVars, clVars, planVars, metVars, appVars>>

NextGrid == \E nanOutcome \in {"threw", "hung"} : GridCall(nanOutcome)

SpecGrid == InitGrid /\ [][NextGrid]_vars

----------------------------------------------------------------------------
(* SpecPlan: any sequence of makePlan calls on the module's idCounter *)

InitPlan == planIdle /\ segIdle /\ clIdle /\ gridIdle /\ metIdle /\ InitApp

MakePlanCall(opts) ==
    LET r == makePlan(opts, idCounter) IN
    /\ plan' = <<r.plan>>
    /\ idCounter' = r.idCounter
    /\ plan_opts' = <<opts>>
    /\ plan_idBefore' = idCounter
    /\ UNCHANGED <<segVars, clVars, gridVars, metVars, appVars>>

NextPlan == \E opts \in PlanOpts : MakePlanCall(opts)

SpecPlan == InitPlan /\ [][NextPlan]_vars

----------------------------------------------------------------------------
(* SpecMetrics: one call of spacingFromOverlap on every bounded input, and  *)
(* the photo count of a main path distance over the along-track spacing it  *)
(* returned                                                                 *)

MetHeights  == {-10, 0, 100, 120}
MetCameras  == {"Mavic3T_Wide", "Phantom4Pro", "Mavic3T_Tele"}
MetOverlaps == {0, 50, 75, 95}
MetSidelaps == {0, 70, 95}
MetMains    == {0, 1, 99, 100, 101, 250}

InitMetrics ==
    /\ sp_height \in MetHeights
    /\ sp_cam \in MetCameras
    /\ sp_overlap \in MetOverlaps
    /\ sp_sidelap \in MetSidelaps
    /\ ph_main \in MetMains
    /\ sp_out = <<>>
    /\ ph_out = 0
    /\ met_pc = "call"
    /\ segIdle /\ clIdle /\ gridIdle /\ planIdle /\ InitApp

SpacingCall ==
    /\ met_pc = "call"
    /\ sp_out' = <<spacingFromOverlap(sp_height, Cameras[sp_cam], sp_overlap,
                                      sp_sidelap)>>
    /\ met_pc' = "spaced"
    /\ UNCHANGED <<sp_height, sp_cam, sp_overlap, sp_sidelap, ph_main, ph_out,
                   segVars, clVars, gridVars, planVars, appVars>>

PhotoCountCall ==
    /\ met_pc = "spaced"
    /\ ph_out' = photoCountOf(ph_main, sp_out[1].along_m)
    /\ met_pc' = "counted"
    /\ UNCHANGED <<sp_height, sp_cam, sp_overlap, sp_sidelap, sp_out, ph_main,
                   segVars, clVars, gridVars, planVars, appVars>>

NextMetrics == SpacingCall \/ PhotoCountCall

SpecMetrics == InitMetrics /\ [][NextMetrics]_vars

----------------------------------------------------------------------------
(* C1: concatenating the legs arrays of the segments segmentByCap returns,  *)
(* in output order, yields exactly the input leg list.                      *)

SegLegsConcat == Flatten([k \in 1..Len(seg_out) |-> seg_out[k].legs])

C1_SegmentsReproduceLegs ==
    seg_pc = "done" => SegLegsConcat = seg_legs

C1_Witness ==
    /\ seg_pc = "done"
    /\ Len(seg_legs) = 3
    /\ Len(seg_out) = 2
    /\ Len(seg_out[1].legs) = 2

(* C2: every segment's time_s is at most max(60, cap_min*60 - 60) seconds,  *)
(* or the segment holds exactly one leg.                                    *)

EffectiveBudget == IF seg_cap * 60 - 60 > 60 THEN seg_cap * 60 - 60 ELSE 60

OverBudget(s) == s.time_s.num > EffectiveBudget * s.time_s.den

C2_WithinBudgetOrSingleton ==
    seg_pc = "done" =>
        \A k \in 1..Len(seg_out) :
            ~OverBudget(seg_out[k]) \/ Len(seg_out[k].legs) = 1

C2_Witness ==
    /\ seg_pc = "done"
    /\ \E k \in 1..Len(seg_out) :
            OverBudget(seg_out[k]) /\ Len(seg_out[k].legs) = 1
    /\ \E k \in 1..Len(seg_out) :
            Len(seg_out[k].legs) = 2 /\ seg_out[k].time_s.num > 0

(* C22: segmentByCap closes a segment only when forced: for every two       *)
(* consecutive output segments, the earlier segment's time_s plus the cost  *)
(* of the later segment's first leg (leg flight time + turnTime) is         *)
(* strictly greater than the effective budget.                              *)

\* durations are counted in units of 1 / SegUnit seconds
SegUnit == IF seg_speed > 0 THEN seg_speed ELSE 1

\* a leg's cost in those units: legDistance / groundspeed (0 when the
\* groundspeed is <= 0) plus turnTime
LegCost(leg) ==
    (IF seg_speed > 0
     THEN turfLength([k \in 1..Len(leg) |-> SwapLL(leg[k])]) ELSE 0)
    + seg_turn * SegUnit

\* a segment's recorded time_s in those units (time_s.den divides SegUnit here)
SegTime(s) == (s.time_s.num * SegUnit) \div s.time_s.den

C22_SegmentsCloseOnlyWhenForced ==
    seg_pc = "done" =>
        \A k \in 1..(Len(seg_out) - 1) :
            /\ seg_out[k].time_s.den = SegUnit
            /\ SegTime(seg_out[k]) + LegCost(seg_out[k + 1].legs[1])
                  > EffectiveBudget * SegUnit

\* a segment of two legs closed before a third leg, flown at a positive speed
C22_Witness ==
    /\ seg_pc = "done"
    /\ seg_speed > 0
    /\ Len(seg_out) = 2
    /\ Len(seg_out[1].legs) = 2
    /\ ~OverBudget(seg_out[1])

(* C23: each segment segmentByCap returns records time_s equal to the sum   *)
(* over its legs of legDistance / groundspeed (0 when groundspeed <= 0)     *)
(* plus turnTime once per leg, pathLatLon equal to connectLegs of its legs, *)
(* and distance_m equal to the length of that stitched path.                *)

RECURSIVE SumLegCost(_)
SumLegCost(legs) ==
    IF legs = <<>> THEN 0 ELSE LegCost(Head(legs)) + SumLegCost(Tail(legs))

C23_SegmentRecords ==
    seg_pc = "done" =>
        \A k \in 1..Len(seg_out) :
            LET s == seg_out[k] IN
            /\ s.time_s.den = SegUnit
            /\ s.time_s.num = SumLegCost(s.legs)
            /\ s.pathLatLon = connectLegs(s.legs)
            /\ s.distance_m =
                  turfLength([j \in 1..Len(s.pathLatLon) |->
                                 SwapLL(s.pathLatLon[j])])

\* a segment of two legs that do not touch, flown at a positive speed with a
\* turn time: its distance counts the connector between them
C23_Witness ==
    /\ seg_pc = "done"
    /\ seg_speed > 0 /\ seg_turn > 0
    /\ \E k \in 1..Len(seg_out) :
          /\ Len(seg_out[k].legs) = 2
          /\ seg_out[k].legs[2][1] # Last(seg_out[k].legs[1])
          /\ seg_out[k].distance_m > distAccumOf(seg_out[k].legs)

----------------------------------------------------------------------------
(* C10: connectLegs returns the first leg's points followed, for each later *)
(* leg in order, by all of that leg's points when its first point differs   *)
(* from the point the path ends with, and by all but the first when they    *)
(* are equal; no junction between two legs holds the same point twice.      *)

\* the part of leg k the stitched path holds, told from the legs alone
C10_Part(k) ==
    IF k = 1 \/ cl_legs[k][1] # Last(cl_legs[k - 1])
    THEN cl_legs[k] ELSE Tail(cl_legs[k])

\* index in the stitched path of the last point before leg k's part
C10_Offset(k) == Len(Flatten([j \in 1..(k - 1) |-> C10_Part(j)]))

C10_ConnectLegsShape ==
    cl_pc = "done" =>
        /\ cl_out = Flatten([k \in 1..Len(cl_legs) |-> C10_Part(k)])
        /\ \A k \in 2..Len(cl_legs) :
               cl_out[C10_Offset(k)] # cl_out[C10_Offset(k) + 1]

C10_Witness ==
    /\ cl_pc = "done"
    /\ Len(cl_legs) = 3
    /\ cl_legs[2][1] = Last(cl_legs[1])
    /\ cl_legs[3][1] # Last(cl_legs[2])
    /\ Len(cl_out) = Len(cl_legs[1]) + Len(cl_legs[2]) - 1 + Len(cl_legs[3])

----------------------------------------------------------------------------
(* C3: in the plan any makePlan call returns, whatever calls preceded it,   *)
(* the doJumpId of items[k] is k+1 (0-based k): 1, 2, 3, ... in item order. *)

PlanItems == plan[1].mission.items

C3_DoJumpIdsCountFromOne ==
    plan # NoPlan =>
        \A k \in 1..Len(PlanItems) : PlanItems[k].doJumpId = k

\* a call that follows a call which left the counter above 1
C3_Witness ==
    /\ plan # NoPlan
    /\ plan_idBefore > 4
    /\ Len(PlanItems) = 3

(* C4: makePlan returns 1 + (number of points over all gridLines) items:    *)
(* the camera trigger command, then one waypoint per point of the legs      *)
(* flattened in leg order, none skipped even where two legs share a point.  *)

PlanPoints == Flatten(plan_opts[1].gridLines)

C4_ItemsAreTriggerThenWaypoints ==
    plan # NoPlan =>
        /\ Len(PlanItems) = 1 + Len(PlanPoints)
        /\ PlanItems[1].command = 206
        /\ PlanItems[1].params = <<plan_opts[1].trigger_m, 0, 0, 0, 0, 0, 0>>
        /\ \A k \in 1..Len(PlanPoints) :
              /\ PlanItems[k + 1].command = 16
              /\ PlanItems[k + 1].frame = 3
              /\ PlanItems[k + 1].autoContinue = TRUE
              /\ PlanItems[k + 1].params =
                    <<0, 0, 0, 0, PlanPoints[k][1], PlanPoints[k][2],
                      plan_opts[1].relAlt_m>>

\* two legs, the second starting where the first ends
C4_Witness ==
    /\ plan # NoPlan
    /\ Len(plan_opts[1].gridLines) = 2
    /\ plan_opts[1].gridLines[2][1] = Last(plan_opts[1].gridLines[1])
    /\ Len(PlanItems) = 1 + Len(plan_opts[1].gridLines[1]) + Len(plan_opts[1].gridLines[2])

(* C17: makePlan is deterministic: two calls with equal options return      *)
(* equal plans, every field and every item with its doJumpId, whatever      *)
(* other makePlan calls were made before or between them.  The counter is   *)
(* the only state a call finds: the plan a call returned is the plan        *)
(* makePlan gives for the same options from every value the counter can     *)
(* hold.                                                                    *)

\* the values a call can leave in idCounter: 1 + the trigger + the waypoints
PlanCounters == 1..(2 + 3 * MaxPlanLegs)

C17_MakePlanDeterministic ==
    plan # NoPlan =>
        /\ idCounter \in PlanCounters /\ plan_idBefore \in PlanCounters
        /\ \A idc \in PlanCounters :
               makePlan(plan_opts[1], idc).plan = plan[1]

\* a call with legs, made after a call that left the counter above 1
C17_Witness ==
    /\ plan # NoPlan
    /\ plan_idBefore > 1
    /\ plan_idBefore # idCounter
    /\ Len(plan_opts[1].gridLines) = 2

(* C18: the plan makePlan returns has mission.plannedHomePosition =         *)
(* [homeLat, homeLon, 0], fileType 'Plan', version 1, groundStation         *)
(* 'QGroundControl'; firmwareType is 12 and vehicleType 3 when the caller   *)
(* supplies none, and a supplied firmwareType or vehicleType is kept.       *)

C18_PlanHeaderAndDefaults ==
    plan # NoPlan =>
        LET opts == plan_opts[1]
            mission == plan[1].mission
        IN  /\ mission.plannedHomePosition = <<opts.homeLat, opts.homeLon, 0>>
            /\ plan[1].fileType = "Plan"
            /\ plan[1].version = 1
            /\ plan[1].groundStation = "QGroundControl"
            /\ mission.firmwareType =
                   IF opts.firmwareType = Undefined THEN 12
                   ELSE opts.firmwareType[1]
            /\ mission.vehicleType =
                   IF opts.vehicleType = Undefined THEN 3
                   ELSE opts.vehicleType[1]

\* a call that supplies firmwareType 0 and no vehicleType
C18_Witness ==
    /\ plan # NoPlan
    /\ plan_opts[1].firmwareType = <<0>>
    /\ plan_opts[1].vehicleType = Undefined
    /\ plan[1].mission.firmwareType = 0
    /\ plan[1].mission.vehicleType = 3

----------------------------------------------------------------------------
(* Claims about buildGridInsidePolygon, read off a finished call (SpecGrid) *)

GridOk == grid_pc = "done" /\ grid_out.status = "ok"

\* a LatLon point of a leg lies inside the called ring or on its boundary
GridPointWithin(pt) ==
    booleanPointInPolygon2(<<2 * pt[2], 2 * pt[1]>>, grid_ring)

\* the pieces of every scan line of the call, in scan order (spacing # 0)
GridScanPieces ==
    LET fr == gridFrame(grid_ring, grid_heading, grid_spacing)
        hs == halfStepsOf(fr.cover_m, grid_spacing)
    IN  Flatten([n \in 1..(2 * hs + 1) |->
                    scanPieces(transformTranslate(fr.baseLine,
                                                  (n - 1 - hs) * grid_spacing,
                                                  fr.ortho),
                               grid_ring, grid_throws)])

\* the midpoint of a piece's end points tests inside the called ring
GridPieceInside(piece) ==
    booleanPointInPolygon2(midpoint2(piece[1], piece[Len(piece)]), grid_ring)

\* a LonLat piece as the LatLon path a leg holds
GridPiecePath(piece) == [j \in 1..Len(piece) |-> SwapLL(piece[j])]

(* C5: every point of every leg buildGridInsidePolygon returns lies inside  *)
(* the polygon or on its boundary, for every polygon, heading and positive  *)
(* spacing, also when line clipping returns no pieces or throws.            *)

C5_LegPointsWithinAOI ==
    (GridOk /\ grid_spacing > 0) =>
        \A k \in 1..Len(grid_out.legs) :
            \A j \in 1..Len(grid_out.legs[k]) :
                GridPointWithin(grid_out.legs[k][j])

(* C6: for every leg returned, the midpoint between the leg's first and     *)
(* last point tests inside the polygon; a clipped piece whose midpoint is   *)
(* not inside the polygon never becomes a leg.                              *)

C6_KeptLegsHaveInsideMidpoint ==
    GridOk =>
        LET sp    == GridScanPieces
            kept  == {GridPiecePath(sp[n]) :
                         n \in {m \in 1..Len(sp) : GridPieceInside(sp[m])}}
            dropped == {GridPiecePath(sp[n]) :
                         n \in {m \in 1..Len(sp) : ~GridPieceInside(sp[m])}}
        IN  /\ \A k \in 1..Len(grid_out.legs) :
                  LET leg == grid_out.legs[k] IN
                  /\ booleanPointInPolygon2(
                         midpoint2(SwapLL(leg[1]), SwapLL(leg[Len(leg)])),
                         grid_ring)
                  /\ leg \in kept \/ Reverse(leg) \in kept
            /\ \A k \in 1..Len(grid_out.legs) :
                  /\ grid_out.legs[k] \notin dropped
                  /\ Reverse(grid_out.legs[k]) \notin dropped

\* legs were kept while pieces of the same scan lines were discarded
C6_Witness ==
    /\ GridOk
    /\ grid_ring = UShape
    /\ grid_spacing > 0
    /\ Len(grid_out.legs) >= 2
    /\ LET sp == GridScanPieces
       IN  /\ \E n \in 1..Len(sp) : ~GridPieceInside(sp[n])
           /\ \E n \in 1..Len(sp) : GridPieceInside(sp[n])

(* C7: the leg at output index k (0-based) keeps the point order of its     *)
(* clipped piece, which runs along the heading, when k is even and has that *)
(* order reversed when k is odd; k counts kept legs only, so discarded      *)
(* pieces and several pieces of one scan line do not break the alternation. *)

GridKeptPieces == SelectSeq(GridScanPieces, GridPieceInside)

\* the piece runs from its first to its last point along the heading
GridAlongHeading(piece) ==
    LET v  == bearingVec(grid_heading)
        dx == piece[Len(piece)][1] - piece[1][1]
        dy == piece[Len(piece)][2] - piece[1][2]
    IN  dx * v[2] = dy * v[1] /\ dx * v[1] + dy * v[2] > 0

C7_LegsAlternateByOutputIndex ==
    GridOk =>
        LET kept == GridKeptPieces
        IN  /\ Len(grid_out.legs) = Len(kept)
            /\ \A k \in 1..Len(grid_out.legs) :
                  /\ GridAlongHeading(kept[k])
                  /\ grid_out.legs[k] =
                        IF (k - 1) % 2 = 0
                        THEN GridPiecePath(kept[k])
                        ELSE Reverse(GridPiecePath(kept[k]))

\* five legs over the U shape, two scan lines giving two legs each around a
\* discarded piece
C7_Witness ==
    /\ GridOk
    /\ grid_ring = UShape
    /\ grid_heading = 90
    /\ grid_spacing > 0
    /\ Len(grid_out.legs) = 5
    /\ Len(GridScanPieces) > 5
    /\ \E k \in 1..4 : grid_out.legs[k][1][1] = grid_out.legs[k + 1][1][1]

(* C8: when the across-track spacing passed to the grid builder is <= 0     *)
(* (height AGL 0 or negative gives such a spacing), the call terminates and *)
(* returns an empty leg list.                                               *)

C8_NonPositiveSpacingGivesEmptyGrid ==
    (grid_pc = "done" /\ grid_spacing <= 0) =>
        grid_out.status = "ok" /\ grid_out.legs = <<>>

(* C13: for a convex AOI whose extent along the orthogonal bearing is W     *)
(* metres and a spacing s > 0, the number of legs returned is within 1 of   *)
(* floor(W / s); for the 100 m x 100 m square at heading 0 and spacing 20 m *)
(* it is 5 or 6.                                                            *)

ConvexRings == {Square, Triangle, Diamond, Field}

\* the ring's extent along the orthogonal bearing, in lattice steps of it
GridOrthoSteps ==
    LET o == bearingVec((grid_heading + 90) % 360)
        dots == {grid_ring[k][1] * o[1] + grid_ring[k][2] * o[2] :
                    k \in 1..Len(grid_ring)}
    IN  MaxOf(dots) - MinOf(dots)

\* floor(W / s): a step is 1 m on an axis bearing and sqrt(2) / 2 m of extent
\* on a diagonal one (W = steps / sqrt(2))
GridFloorWidthOverSpacing ==
    IF grid_heading % 90 = 0 THEN GridOrthoSteps \div grid_spacing
    ELSE ISqrt((GridOrthoSteps * GridOrthoSteps)
                   \div (2 * grid_spacing * grid_spacing), GridOrthoSteps)

C13_LegCountWithinOneOfWidthOverSpacing ==
    (GridOk /\ grid_spacing > 0 /\ grid_ring \in ConvexRings) =>
        /\ Abs(Len(grid_out.legs) - GridFloorWidthOverSpacing) <= 1
        /\ (grid_ring = Square /\ grid_heading = 0 /\ grid_spacing = 20) =>
              Len(grid_out.legs) \in {5, 6}

\* the part of C13 the code keeps: headings along the polygon's bbox axes
C13_AxisHeadings ==
    grid_heading % 90 = 0 => C13_LegCountWithinOneOfWidthOverSpacing

----------------------------------------------------------------------------
(* C20: when line clipping or the point-in-polygon test fails on a          *)
(* malformed polygon, buildGridInsidePolygon does not throw: the failure is *)
(* handled by treating the unclipped candidate line as a single segment,    *)
(* and the call still returns a leg list.                                   *)

\* the unclipped scan lines of the call, as the LatLon paths legs hold
GridWholeLines ==
    LET fr == gridFrame(grid_ring, grid_heading, grid_spacing)
        hs == halfStepsOf(fr.cover_m, grid_spacing)
    IN  {GridPiecePath(transformTranslate(fr.baseLine, i * grid_spacing,
                                          fr.ortho)) : i \in (-hs)..hs}

\* every leg returned is an unclipped scan line, in either direction
GridLegsAreWholeLines ==
    LET whole == GridWholeLines
    IN  \A k \in 1..Len(grid_out.legs) :
            grid_out.legs[k] \in whole \/ Reverse(grid_out.legs[k]) \in whole

C20_LibraryFailureFallsBack ==
    (grid_pc = "done" /\ grid_spacing > 0
        /\ (grid_throws \/ grid_pipThrows)) =>
            /\ grid_out.status = "ok"
            /\ GridLegsAreWholeLines

\* the part of C20 the code keeps: a clipping failure alone
C20_ClippingFailureFallsBack ==
    ~grid_pipThrows => C20_LibraryFailureFallsBack

----------------------------------------------------------------------------
(* C9: when the AOI is absent, or the drawn ring has fewer than 4 entries,  *)
(* the combined leg list is empty with crosshatch off and on, and every     *)
(* downstream metric is zero: main path distance, transit distance,         *)
(* estimated time and photo count are 0 and the oriented path, the entry    *)
(* and the return segment are empty.                                        *)

C9_NoAoiGivesEmptyPlan ==
    (aoi = Null \/ drawRingLen \in 0..3) =>
        /\ appStatus = "ok"
        /\ legsPrimary = <<>> /\ legsCross = <<>> /\ allLegs = <<>>
        /\ rawPathLatLon = <<>>
        /\ orientedPathLonLat = <<>>
        /\ entryCoords = <<>> /\ returnCoords = <<>>
        /\ mainPathDistance_m = 0
        /\ entryReturnDistance_m = 0
        /\ estTime_min.num = 0
        /\ photoCount = 0

\* a ring of 3 entries was drawn with crosshatch on, after Home was moved
C9_Witness ==
    /\ drawRingLen = 3
    /\ aoi = Null
    /\ crosshatch
    /\ home # <<-20, -20>>
    /\ appStatus = "ok"

----------------------------------------------------------------------------
(* Claims about the App's path orientation and transit segments (Spec) *)

\* Home and the stitched path as the orientation sees them: LonLat
HomeLL == <<home[2], home[1]>>
StitchedLL == [k \in 1..Len(rawPathLatLon) |-> SwapLL(rawPathLatLon[k])]

\* squared straight-line distance from Home to a LonLat point
HomeDistSq(p) ==
    (p[1] - HomeLL[1]) * (p[1] - HomeLL[1])
    + (p[2] - HomeLL[2]) * (p[2] - HomeLL[2])

(* C11: for every Home and every stitched path of >= 2 points the oriented  *)
(* path is the stitched path or its exact reversal, its first point is no   *)
(* farther from Home than its last, and it is reversed only when the        *)
(* stitched path's last point is strictly closer to Home than its first.    *)

C11_OrientedStartsNearerHome ==
    (appStatus = "ok" /\ Len(rawPathLatLon) >= 2) =>
        /\ orientedPathLonLat \in {StitchedLL, Reverse(StitchedLL)}
        /\ HomeDistSq(orientedPathLonLat[1])
              <= HomeDistSq(orientedPathLonLat[Len(orientedPathLonLat)])
        /\ orientedPathLonLat # StitchedLL =>
              HomeDistSq(StitchedLL[Len(StitchedLL)]) < HomeDistSq(StitchedLL[1])

\* Home was moved next to the far end of the path, and the path is reversed
C11_Witness ==
    /\ appStatus = "ok"
    /\ Len(rawPathLatLon) >= 2
    /\ orientedPathLonLat = Reverse(StitchedLL)
    /\ orientedPathLonLat # StitchedLL
    /\ home # <<-20, -20>>

(* C12: when the oriented path has >= 2 points the entry segment is        *)
(* exactly [Home, first point] and the return segment exactly [last point,  *)
(* Home], and the transit distance is the sum of the two segments' lengths; *)
(* with fewer than 2 points both segments are empty and the transit         *)
(* distance is 0.                                                           *)

C12_EntryAndReturnSegments ==
    appStatus = "ok" =>
        IF Len(orientedPathLonLat) >= 2
        THEN /\ entryCoords = <<HomeLL, orientedPathLonLat[1]>>
             /\ returnCoords =
                   <<orientedPathLonLat[Len(orientedPathLonLat)], HomeLL>>
             /\ entryReturnDistance_m =
                   turfDistance(HomeLL, orientedPathLonLat[1])
                   + turfDistance(orientedPathLonLat[Len(orientedPathLonLat)],
                                  HomeLL)
        ELSE /\ entryCoords = <<>>
             /\ returnCoords = <<>>
             /\ entryReturnDistance_m = 0

\* a path is planned, Home lies off both of its ends
C12_Witness ==
    /\ appStatus = "ok"
    /\ Len(orientedPathLonLat) >= 2
    /\ Len(entryCoords) = 2 /\ Len(returnCoords) = 2
    /\ entryCoords[2] # HomeLL /\ returnCoords[1] # HomeLL
    /\ entryReturnDistance_m > 0

(* C16: the estimated time in minutes is (totalDistance / groundspeed +     *)
(* (legCount - 1) * turnTime) / 60, totalDistance being the main path       *)
(* distance plus the transit distance, and 0 when groundspeed <= 0 or       *)
(* totalDistance <= 0.                                                      *)

totalDistance_m == mainPathDistance_m + entryReturnDistance_m

C16_EstimatedTimeFormula ==
    appStatus = "ok" =>
        IF groundspeed <= 0 \/ totalDistance_m <= 0
        THEN estTime_min.num = 0
        ELSE /\ estTime_min.den > 0
             /\ estTime_min.num * (groundspeed * 60) =
                    estTime_min.den *
                        (totalDistance_m
                            + (Len(allLegs) - 1) * turnTime * groundspeed)

\* several legs flown with a turn time and a transit from Home
C16_Witness ==
    /\ appStatus = "ok"
    /\ groundspeed > 0 /\ turnTime > 0
    /\ Len(allLegs) >= 2
    /\ mainPathDistance_m > 0 /\ entryReturnDistance_m > 0
    /\ estTime_min.num > totalDistance_m

----------------------------------------------------------------------------
(* Claims about the photo count and the spacing calculator (SpecMetrics) *)

Counted == met_pc = "counted"

\* the along-track spacing the photo count was taken over
MetAlong == sp_out[1].along_m

RECURSIVE Gcd(_, _)
Gcd(a, b) == IF b = 0 THEN a ELSE Gcd(b, a % b)

\* a rational of positive denominator in lowest terms
Lowest(q) == LET g == Gcd(Abs(q.num), q.den)
             IN  [num |-> q.num \div g, den |-> q.den \div g]

\* a <= b for spacings as rationals of positive denominators
RatLeq(a, b) == Lowest(a).num * Lowest(b).den <= Lowest(b).num * Lowest(a).den

\* every along-track spacing the bounded inputs give
MetAlongs ==
    {spacingFromOverlap(h, Cameras[c], o, 0).along_m :
        h \in MetHeights, c \in MetCameras, o \in MetOverlaps}

(* C14: the photo count is ceil(mainPathDistance / alongTrackSpacing) when  *)
(* both operands are > 0, that is the integer n with (n - 1) * spacing <     *)
(* distance <= n * spacing, and 0 when either operand is <= 0.              *)

C14_PhotoCountIsCeilOrZero ==
    Counted =>
        IF MetAlong.num > 0 /\ ph_main > 0
        THEN /\ (ph_out - 1) * MetAlong.num < ph_main * MetAlong.den
             /\ ph_main * MetAlong.den <= ph_out * MetAlong.num
        ELSE ph_out = 0

\* a count of several photos that rounds a fractional quotient up
C14_Witness ==
    /\ Counted
    /\ MetAlong.num > 0
    /\ ph_main > 0
    /\ ph_out >= 2
    /\ ph_main * MetAlong.den < ph_out * MetAlong.num

(* C15: the photo count is non-decreasing in the main path distance with    *)
(* the spacing fixed, and non-increasing in the along-track spacing with    *)
(* the distance fixed, over all values of the two operands including the    *)
(* guarded values <= 0.                                                     *)

C15_NonDecreasingInDistance ==
    \A d2 \in MetMains :
        ph_main <= d2 => ph_out <= photoCountOf(d2, MetAlong)

C15_NonIncreasingInSpacing ==
    \A a2 \in MetAlongs :
        RatLeq(MetAlong, a2) => ph_out >= photoCountOf(ph_main, a2)

C15_PhotoCountMonotone ==
    Counted => C15_NonDecreasingInDistance /\ C15_NonIncreasingInSpacing

(* C15, as the code keeps it: non-decreasing in the distance over all       *)
(* values, non-increasing in the spacing over the spacings > 0.             *)

C15_MonotoneOverPositiveSpacing ==
    Counted =>
        /\ C15_NonDecreasingInDistance
        /\ MetAlong.num > 0 => C15_NonIncreasingInSpacing

\* a count that a longer distance raises and a wider spacing lowers
C15_Witness ==
    /\ Counted
    /\ MetAlong.num > 0
    /\ \E d2 \in MetMains :
          ph_main < d2 /\ ph_out < photoCountOf(d2, MetAlong)
    /\ \E a2 \in MetAlongs :
          /\ ~RatLeq(a2, MetAlong)
          /\ ph_out > photoCountOf(ph_main, a2)

(* C19: spacingFromOverlap returns along_m = (height * sensorHeight /       *)
(* focalLength) * (1 - overlap) and across_m = (height * sensorWidth /      *)
(* focalLength) * (1 - sidelap); for height >= 0, positive camera           *)
(* dimensions and overlap, sidelap in [0, 0.95] both are non-negative.      *)

Spaced == met_pc \in {"spaced", "counted"}

\* a = b for rationals of positive denominators
RatEq(a, b) == Lowest(a) = Lowest(b)

C19_SpacingFromOverlapFormula ==
    Spaced =>
        LET cam == Cameras[sp_cam]
            out == sp_out[1]
        IN  /\ out.along_m.den > 0 /\ out.across_m.den > 0
            /\ RatEq(out.along_m,
                     [num |-> sp_height * cam.sensorHeight_mm
                                  * (100 - sp_overlap),
                      den |-> cam.focalLength_mm * 100])
            /\ RatEq(out.across_m,
                     [num |-> sp_height * cam.sensorWidth_mm
                                  * (100 - sp_sidelap),
                      den |-> cam.focalLength_mm * 100])
            /\ (/\ sp_height >= 0
                /\ sp_overlap \in 0..95 /\ sp_sidelap \in 0..95
                /\ cam.sensorWidth_mm > 0 /\ cam.sensorHeight_mm > 0
                /\ cam.focalLength_mm > 0)
                   => out.along_m.num >= 0 /\ out.across_m.num >= 0

\* a call at a positive height with different overlap and sidelap
C19_Witness ==
    /\ Spaced
    /\ sp_height > 0
    /\ sp_overlap = 75 /\ sp_sidelap = 70
    /\ sp_out[1].along_m.num > 0
    /\ ~RatEq(sp_out[1].along_m, sp_out[1].across_m)

----------------------------------------------------------------------------
(* C21: after any sequence of input changes (AOI, heading, height, overlap, *)
(* sidelap, camera, groundspeed, turn time, battery cap, crosshatch,        *)
(* auto-segment, Home) the memoized legs, stitched path, oriented path,     *)
(* entry and return segments, metrics and segments equal what a             *)
(* from-scratch computation on the current inputs alone produces.           *)

C21_MemosEqualFromScratch ==
    appStatus = "ok" =>
        LET sp   == spacingFromOverlap(heightAGL, Cameras[cameraKey], overlap,
                                       sidelap)
            lp   == legsPrimaryOf(aoi, heading, Metres(sp.across_m),
                                  aoiSplitThrows, "threw")
            lc   == legsCrossOf(aoi, crosshatch, heading, Metres(sp.across_m),
                                aoiSplitThrows, "threw")
            all  == allLegsOf(crosshatch, lp.legs, lc.legs)
            raw  == connectLegs(all)
            ori  == orientedPathOf(raw, home)
            ent  == entryCoordsOf(ori, home)
            ret  == returnCoordsOf(ori, home)
            main == mainPathDistanceOf(ori)
            er   == entryReturnDistanceOf(ent, ret)
            est  == estTimeOf(main + er, groundspeed, Len(all), turnTime)
        IN  /\ along_m = sp.along_m /\ across_m = sp.across_m
            /\ lp.status = "ok" /\ lc.status = "ok"
            /\ legsPrimary = lp.legs /\ legsCross = lc.legs
            /\ allLegs = all
            /\ rawPathLatLon = raw
            /\ orientedPathLonLat = ori
            /\ entryCoords = ent /\ returnCoords = ret
            /\ mainPathDistance_m = main
            /\ entryReturnDistance_m = er
            /\ estTime_min = est
            /\ photoCount = photoCountOf(main, sp.along_m)
            /\ segments = segmentsOf(autoSegment, all, raw, main, est,
                                     groundspeed, turnTime, batteryCap)

\* an AOI is drawn and the overlap, the heading and Home differ from their
\* initial values: the memos were recomputed several times before this state
C21_Witness ==
    /\ appStatus = "ok"
    /\ aoi # Null
    /\ Len(allLegs) >= 2
    /\ photoCount > 0
    /\ overlap = 50 /\ heading = 270 /\ home = <<60, 150>>
    /\ crosshatch /\ autoSegment

----------------------------------------------------------------------------
(* C24: with crosshatch on, the combined leg list is the primary grid's     *)
(* legs (at heading) followed by the cross grid's legs (at (heading + 90)   *)
(* mod 360), each list being what the grid builder returns on its own;      *)
(* with crosshatch off it is the primary legs alone, and the primary legs   *)
(* are the same whether crosshatch is on or off.                            *)

\* the legs the grid builder returns for the current AOI at a heading
GridAt(headingDeg) ==
    buildGridInsidePolygon(aoi[1].coordinates[1], headingDeg, Metres(across_m),
                           aoiSplitThrows, FALSE, "threw").legs

C24_CrosshatchConcatenates ==
    (appStatus = "ok" /\ aoi # Null) =>
        /\ legsPrimary = GridAt(heading)
        /\ crosshatch =>
              /\ legsCross = GridAt((heading + 90) % 360)
              /\ allLegs = GridAt(heading) \o GridAt((heading + 90) % 360)
        /\ ~crosshatch => allLegs = GridAt(heading)

\* crosshatch on at heading 270, both grids non-empty and different
C24_Witness ==
    /\ appStatus = "ok"
    /\ aoi # Null
    /\ crosshatch
    /\ heading = 270
    /\ legsPrimary # <<>> /\ legsCross # <<>>
    /\ legsPrimary # legsCross
    /\ Len(allLegs) = Len(legsPrimary) + Len(legsCross)

----------------------------------------------------------------------------
(* C25: after any sequence of draw create, update and delete events, the    *)
(* AOI state is either absent (null) or a polygon whose ring has at least 4 *)
(* entries; a drawn polygon with a shorter ring, a failure while reading    *)
(* the drawing, or a delete event leaves the AOI absent.  (drawRingLen is   *)
(* the ring length the latest event read, -1 when it read no polygon: the   *)
(* read failed, the drawing held no polygon, or the event was a delete.)    *)

C25_AoiAbsentOrValidRing ==
    /\ aoi # Null =>
          /\ Len(aoi[1].coordinates) >= 1
          /\ Len(aoi[1].coordinates[1]) >= 4
          /\ drawRingLen = Len(aoi[1].coordinates[1])
    /\ drawRingLen < 4 => aoi = Null

\* a drawn polygon of 5 ring entries was accepted and planned over
C25_Witness ==
    /\ aoi # Null
    /\ drawRingLen = 5
    /\ appStatus = "ok"
    /\ legsPrimary # <<>>

====
